---- MODULE Spec2Model ----
(***************************************************************************)
(* UFS2ARCO: the dataset ingestion-and-storage pipeline of UFSDataset /    *)
(* FV3Dataset (src/src/UFS2ARCO/ufsdataset.py, fv3dataset.py) and the path *)
(* resolver replay_path (src/src/UFS2ARCO/replay_to_zarr_example.py), and  *)
(* the console script skeleton.main (src/src/UFS2ARCO/skeleton.py).        *)
(*                                                                         *)
(* A list is a sequence; a dict is a sequence of <<key, value>> pairs with  *)
(* distinct keys (Python dicts keep insertion order); a str is a string.   *)
(* A Dataset is reduced to its variable names and which of them are        *)
(* coordinates; the dimensions of a variable are given by VarDims.         *)
(***************************************************************************)
EXTENDS Integers, Sequences, FiniteSets, TLC

VARIABLES
    inst,        \* the dataset object (self); inst.live is FALSE while there is none
    ctor,        \* the last constructor call: its arguments, warnings and how it ended
    fnames,      \* open_dataset: the paths path_in returned
    xds,         \* the caller's dataset (result of open_dataset), if xds.open
    fs,          \* the backing filesystem: store location -> contents or NoDir
    pc,          \* store_dataset run -> position in the Store Writer state machine
    frame,       \* store_dataset run -> its local variables (xds, cds, chunks, error)
    visited,     \* store_dataset run -> the positions it went through, in order
    coordWrites, \* number of physical writes to the coordinate store by store_dataset runs
    dataWrites,  \* store_dataset run -> number of to_zarr / plan.execute() writes it made
    ucall        \* a direct call of a helper: its name, arguments and outcome

vars == <<inst, ctor, fnames, xds, fs, pc, frame, visited, coordWrites, dataWrites, ucall>>

(***************************************************************************)
(* Bounds of the model.                                                    *)
(***************************************************************************)
MaxRuns == 2      \* store_dataset runs in one behaviour
MaxLen == 2       \* longest forecast_hours / file_prefixes list given to the path resolver
MaxChunks == 2    \* most entries of a chunk mapping given to the chunk planner

Runs == 1..MaxRuns

Range(s) == {s[i] : i \in 1..Len(s)}

RECURSIVE SeqsUpTo(_, _)
SeqsUpTo(S, n) ==
    IF n = 0 THEN {<<>>}
    ELSE LET shorter == SeqsUpTo(S, n - 1)
         IN shorter \cup {Append(s, x) : s \in {t \in shorter : Len(t) = n - 1}, x \in S}

RECURSIVE Filter(_, _)
\* [x for x in s if x in keep]
Filter(s, keep) ==
    IF s = <<>> THEN <<>>
    ELSE IF Head(s) \in keep THEN <<Head(s)>> \o Filter(Tail(s), keep)
         ELSE Filter(Tail(s), keep)

(***************************************************************************)
(* Datasets (xarray.Dataset reduced to names).                             *)
(***************************************************************************)
VarNames == {"time", "cftime", "ftime", "pfull", "phalf", "member", "ak", "geolat", "tmp", "pressfc"}

\* the dimensions each variable of the model's files is defined on
VarDims(v) ==
    CASE v = "time"    -> {"time"}
      [] v = "cftime"  -> {"time"}
      [] v = "ftime"   -> {"time"}
      [] v = "pfull"   -> {"pfull"}
      [] v = "phalf"   -> {"phalf"}
      [] v = "member"  -> {"member"}
      [] v = "ak"      -> {"phalf"}
      [] v = "geolat"  -> {"member", "grid_yt"}
      [] v = "tmp"     -> {"time", "pfull", "grid_yt"}
      [] v = "pressfc" -> {"time", "grid_yt"}
      [] OTHER         -> {}

\* vars: all variables; coords: those that are coordinates; gone: dimensions removed by isel
MkDS(vs, cs) == [vars |-> vs, coords |-> cs, gone |-> {}]

EmptyDS == MkDS({}, {})

DimsOfVar(ds, v) == VarDims(v) \ ds.gone

DimsOf(ds) == UNION {DimsOfVar(ds, v) : v \in ds.vars}

DataVars(ds) == ds.vars \ ds.coords

\* a dimension (index) coordinate: a variable named as its single dimension
IndexCoords(ds) == {v \in ds.vars : DimsOfVar(ds, v) = {v}}

\* Dataset.reset_coords(): every non-index coordinate becomes a data variable
reset_coords(ds) == [ds EXCEPT !.coords = IndexCoords(ds)]

\* Dataset.set_coords(names) raises ValueError when a name is no variable
set_coords_ok(ds, names) == names \subseteq ds.vars

set_coords(ds, names) == [ds EXCEPT !.coords = ds.coords \cup names]

\* Dataset.__getitem__(list of names): the listed variables plus every coordinate
\* whose dimensions are all among the dimensions the listed variables need
Select(ds, names) ==
    LET needed == UNION {DimsOfVar(ds, v) : v \in names}
        kept   == {c \in ds.coords : DimsOfVar(ds, c) \subseteq needed}
    IN [vars |-> names \cup kept, coords |-> (names \cap ds.coords) \cup kept, gone |-> ds.gone]

\* cds.isel(member=0).drop("member")
DropMember(ds) ==
    [vars |-> ds.vars \ {"member"}, coords |-> ds.coords \ {"member"},
     gone |-> ds.gone \cup {"member"}]


(***************************************************************************)
(* Python values: [kind, items].  kind is "absent" (the key is not in the  *)
(* YAML block), "none", "str" (items = <<s>>), "list" or "dict".           *)
(***************************************************************************)
AbsentV == [kind |-> "absent", items |-> <<>>]
NoneV == [kind |-> "none", items |-> <<>>]
PyStr(s) == [kind |-> "str", items |-> <<s>>]
PyList(l) == [kind |-> "list", items |-> l]
PyDict(d) == [kind |-> "dict", items |-> d]

IsNone(x) == x.kind = "none"

\* dict keys, in insertion order
Keys(d) == [i \in 1..Len(d) |-> d[i][1]]

(***************************************************************************)
(* UFSDataset.__init__ and FV3Dataset.__init__                             *)
(***************************************************************************)
RequiredKeys == <<"path_out", "forecast_hours", "file_prefixes">>
OptionalKeys == <<"chunks_in", "chunks_out", "coords", "data_vars", "max_mem", "temp_store">>
\* the keys the two loops of __init__ look for
LoopKeys == Range(RequiredKeys) \cup Range(OptionalKeys)

\* a key the block can hold and no line of the class reads
ExtraKeys == {"coords_path_out"}

ConfigKeys == LoopKeys \cup ExtraKeys

\* `key in self.config`
InConfig(cfg, key) == cfg[key].kind # "absent"

NoErr == [type |-> "none", key |-> "", file |-> ""]
Err(t, k, f) == [type |-> t, key |-> k, file |-> f]

\* the class attributes of UFSDataset, before __init__ sets any
ClassDefaults ==
    [live |-> FALSE, name |-> "FV3Dataset",
     path_out |-> PyStr(""), forecast_hours |-> NoneV, file_prefixes |-> NoneV,
     chunks_in |-> NoneV, chunks_out |-> NoneV, coords |-> NoneV, data_vars |-> NoneV,
     zarr_name |-> NoneV, max_mem |-> NoneV, temp_store |-> NoneV]

NoInst == ClassDefaults

\* the built-in chunk maps of FV3Dataset.__init__
FV3ChunksIn == <<<<"pfull", 5>>, <<"grid_yt", -1>>, <<"grid_xt", -1>>>>
FV3ChunksOut == <<<<"time", 1>>, <<"pfull", 5>>, <<"grid_yt", 30>>, <<"grid_xt", 30>>>>

\* variant: only the first required key is looked for
MissingRequiredFirstOnly(cfg) == SelectSeq(<<"path_out">>, LAMBDA k : ~InConfig(cfg, k))

\* the required keys the block lacks, in the order the loop looks for them
MissingRequired(cfg) == SelectSeq(RequiredKeys, LAMBDA k : ~InConfig(cfg, k))

\* the message of the warning __init__ emits for an optional key it did not find
\* (temp_store has no branch: nothing is emitted for it)
WarnNote(key) ==
    CASE key \in {"chunks_in", "chunks_out"} -> "using default"
      [] key = "max_mem"   -> "will not use rechunker"
      [] key = "coords"    -> "will not store coordinate data"
      [] key = "data_vars" -> "will store all data variables"
      [] OTHER             -> "no warning"

Warning(fn, key, file, note) == [fn |-> fn, key |-> key, file |-> file, note |-> note]

RECURSIVE OptionalWarnings(_, _, _)
OptionalWarnings(cfg, file, keys) ==
    IF keys = <<>> THEN <<>>
    ELSE LET k == Head(keys)
             w == IF ~InConfig(cfg, k) /\ WarnNote(k) # "no warning"
                  THEN <<Warning("__init__", k, file, WarnNote(k))>>
                  ELSE <<>>
         IN w \o OptionalWarnings(cfg, file, Tail(keys))

\* setattr(self, key, self.config[key]) for every key the block holds
SetAttrs(cfg) ==
    [a \in DOMAIN ClassDefaults |->
        IF a \in LoopKeys /\ InConfig(cfg, a) THEN cfg[a] ELSE ClassDefaults[a]]

\* self.file_prefixes = [self.file_prefixes] if isinstance(self.file_prefixes, str) else ...
NormalizePrefixes(fp) == IF fp.kind = "str" THEN PyList(fp.items) ELSE fp

\* variant: max_mem is accepted without a temp_store
UFSInit_without_temp_store_check(cfg, file) ==
    LET missing == MissingRequired(cfg)
        attrs   == SetAttrs(cfg)
        warns   == OptionalWarnings(cfg, file, OptionalKeys)
    IN IF missing # <<>>
       THEN [outcome |-> "raised", err |-> Err("KeyError", Head(missing), file),
             inst |-> NoInst, warned |-> <<>>]
       ELSE [outcome |-> "ok", err |-> NoErr,
             inst |-> [attrs EXCEPT !.file_prefixes = NormalizePrefixes(attrs.file_prefixes)],
             warned |-> warns]

\* UFSDataset.__init__: [outcome, err, inst, warned]
UFSInit(cfg, file) ==
    LET missing == MissingRequired(cfg)
        attrs   == SetAttrs(cfg)
        warns   == OptionalWarnings(cfg, file, OptionalKeys)
    IN IF missing # <<>>
       THEN [outcome |-> "raised", err |-> Err("KeyError", Head(missing), file),
             inst |-> NoInst, warned |-> <<>>]
       ELSE IF ~IsNone(attrs.max_mem) /\ IsNone(attrs.temp_store)
       THEN [outcome |-> "raised", err |-> Err("KeyError", "temp_store", file),
             inst |-> NoInst, warned |-> warns]
       ELSE [outcome |-> "ok", err |-> NoErr,
             inst |-> [attrs EXCEPT !.file_prefixes = NormalizePrefixes(attrs.file_prefixes)],
             warned |-> warns]

\* x if len(x) != 0 else default;  len(None) raises TypeError
LenOk(x) == ~IsNone(x)
OrDefault(x, default) == IF Len(x.items) # 0 THEN x ELSE PyDict(default)

\* FV3Dataset.__init__: [outcome, err, inst, warned]
FV3Init(cfg, file) ==
    LET base == UFSInit(cfg, file)
    IN IF base.outcome # "ok" THEN base
       ELSE IF ~LenOk(base.inst.chunks_in)
       THEN [base EXCEPT !.outcome = "raised", !.err = Err("TypeError", "chunks_in", file),
                         !.inst = NoInst]
       ELSE IF ~LenOk(base.inst.chunks_out)
       THEN [base EXCEPT !.outcome = "raised", !.err = Err("TypeError", "chunks_out", file),
                         !.inst = NoInst]
       ELSE [base EXCEPT !.inst = [base.inst EXCEPT
                !.live = TRUE,
                !.zarr_name = PyStr("fv3.zarr"),
                !.chunks_in = OrDefault(base.inst.chunks_in, FV3ChunksIn),
                !.chunks_out = OrDefault(base.inst.chunks_out, FV3ChunksOut)]]

\* variant: the forecast data sent to the coordinate location
forecast_path_coordinates(self) == <<self.path_out.items[1], "coordinates", self.zarr_name.items[1]>>

\* join(self.path_out, "forecast", self.zarr_name)
forecast_path(self) == <<self.path_out.items[1], "forecast", self.zarr_name.items[1]>>

\* join(self.path_out, "coordinates", self.zarr_name)
coords_path(self) == <<self.path_out.items[1], "coordinates", self.zarr_name.items[1]>>


(***************************************************************************)
(* Path Resolver: replay_path / cached_path                                *)
(***************************************************************************)
DigitChar == <<"0", "1", "2", "3", "4", "5", "6", "7", "8", "9">>

RECURSIVE Dec(_)
\* the decimal digits of n >= 0
Dec(n) == IF n < 10 THEN DigitChar[n + 1] ELSE Dec(n \div 10) \o DigitChar[(n % 10) + 1]

RECURSIVE ZeroPad(_, _)
\* f"{n:0wd}": zero-filled to at least w characters, never truncated
ZeroPad(n, w) == IF Len(Dec(n)) >= w THEN Dec(n) ELSE "0" \o ZeroPad(n, w - 1)

\* f"{date:%Y%m%d%H}" (years of four digits)
DateToken(date) ==
    ZeroPad(date.year, 4) \o ZeroPad(date.month, 2) \o ZeroPad(date.day, 2) \o ZeroPad(date.hour, 2)

\* f"{fp}{date:%Y%m%d%H}_fhr{fhr:02d}_control"
FileName(fp, date, fhr) == fp \o DateToken(date) \o "_fhr" \o ZeroPad(fhr, 2) \o "_control"

RECURSIVE LeadLoop(_, _, _, _)
\* for fhr in forecast_hours: files.append(...)
LeadLoop(files, fp, date, hours) ==
    IF hours = <<>> THEN files
    ELSE LeadLoop(Append(files, FileName(fp, date, Head(hours))), fp, date, Tail(hours))

RECURSIVE PrefixLoopLeadMajor(_, _, _, _)
\* variant: the loops nested the other way round
PrefixLoopLeadMajor(files, date, hours, prefixes) ==
    IF hours = <<>> THEN files
    ELSE PrefixLoopLeadMajor(
             files \o [i \in 1..Len(prefixes) |-> FileName(prefixes[i], date, Head(hours))],
             date, Tail(hours), prefixes)

RECURSIVE PrefixLoop(_, _, _, _)
\* for fp in file_prefixes: for fhr in forecast_hours: ...
PrefixLoop(files, date, hours, prefixes) ==
    IF prefixes = <<>> THEN files
    ELSE PrefixLoop(LeadLoop(files, Head(prefixes), date, hours), date, hours, Tail(prefixes))

Upper == "s3://noaa-ufs-gefsv13replay-pds/1deg"

\* f"{date.year:04d}/{date.month:02d}/{date:%Y%m%d%H}"
ThisDir(date) == ZeroPad(date.year, 4) \o "/" \o ZeroPad(date.month, 2) \o "/" \o DateToken(date)

replay_path(date, forecast_hours, file_prefixes) ==
    LET files == PrefixLoop(<<>>, date, forecast_hours, file_prefixes)
    IN [i \in 1..Len(files) |-> Upper \o "/" \o ThisDir(date) \o "/" \o files[i]]

cached_path(date, forecast_hours, file_prefixes) ==
    LET u == replay_path(date, forecast_hours, file_prefixes)
    IN [i \in 1..Len(u) |-> "simplecache::" \o u[i]]

(***************************************************************************)
(* Chunk Planner: UFSDataset._get_relevant_chunks                          *)
(***************************************************************************)
\* dict.pop(key)
Pop(d, key) == SelectSeq(d, LAMBDA kv : kv[1] # key)

RECURSIVE PopLoop(_, _, _)
\* for key in chunks.keys(): if key not in dims: new_chunks.pop(key)
\* st = [new_chunks, chunks]: the two dict objects the loop can reach
PopLoop(st, keys, dims) ==
    IF keys = <<>> THEN st
    ELSE IF Head(keys) \notin dims
         THEN PopLoop([st EXCEPT !.new_chunks = Pop(st.new_chunks, Head(keys))], Tail(keys), dims)
         ELSE PopLoop(st, Tail(keys), dims)

\* variant: no copy is made, the keys are popped from the argument itself
get_relevant_chunks_in_place(dims, chunks) ==
    LET st == PopLoop([new_chunks |-> chunks, chunks |-> chunks], Keys(chunks), dims)
    IN [new_chunks |-> st.new_chunks, chunks |-> st.new_chunks]

\* [new_chunks |-> the returned dict, chunks |-> the argument dict after the call]
get_relevant_chunks(dims, chunks) ==
    PopLoop([new_chunks |-> chunks, chunks |-> chunks], Keys(chunks), dims)

(***************************************************************************)
(* Dataset Reader and Time Normalizer: FV3Dataset.open_dataset             *)
(***************************************************************************)
\* rename time -> cftime, add "time" and "ftime", swap_dims, set_coords
FV3Normalize(raw) ==
    set_coords([raw EXCEPT !.vars = raw.vars \cup {"cftime", "time", "ftime"},
                           !.coords = raw.coords \cup {"cftime", "time"}],
               {"time", "cftime", "ftime"})

\* the Gregorian calendar of datetime.datetime and numpy.datetime64
IsLeap(y) == (y % 4 = 0 /\ y % 100 # 0) \/ y % 400 = 0

DaysInMonth(y, m) ==
    CASE m \in {4, 6, 9, 11} -> 30
      [] m = 2               -> IF IsLeap(y) THEN 29 ELSE 28
      [] OTHER               -> 31

RECURSIVE DaysBeforeMonth(_, _)
DaysBeforeMonth(y, m) == IF m = 1 THEN 0 ELSE DaysBeforeMonth(y, m - 1) + DaysInMonth(y, m - 1)

\* the days from 0001-01-01 to the first day of year y
DaysBeforeYear(y) == 365 * (y - 1) + ((y - 1) \div 4) - ((y - 1) \div 100) + ((y - 1) \div 400)

Ordinal(y, m, d) == DaysBeforeYear(y) + DaysBeforeMonth(y, m) + d

\* np.datetime64(datetime(year, month, day, hour)): a count since 1970-01-01T00,
\* here in hours (the timestamps of the model have no minutes and seconds)
datetime64(t) == 24 * (Ordinal(t.year, t.month, t.day) - Ordinal(1970, 1, 1)) + t.hour

\* _cftime2time: every DatetimeJulian is rebuilt field by field as a datetime64
cftime2time(cftime) == [i \in 1..Len(cftime) |-> datetime64(cftime[i])]

\* variant: the lead time is counted from the first timestamp of the dataset
lead_time_from_first(time, cycle) == [i \in 1..Len(time) |-> time[i] - time[1]]

\* time - np.datetime64(cycle)
lead_time(time, cycle) == [i \in 1..Len(time) |-> time[i] - datetime64(cycle)]

\* the time axis of a dataset: the name of its dimension, the variables defined on it
\* (names) with their values, those that are coordinates, and the one that indexes it
RawAxis(stamps) ==
    [dim |-> "time", index |-> "time", names |-> {"time"}, coords |-> {"time"},
     raw |-> stamps, cftime |-> <<>>, time |-> <<>>, ftime |-> <<>>]

\* xds.rename({"time": "cftime"}): the variable and its dimension are renamed
rename_time(ax) ==
    [ax EXCEPT !.dim = "cftime", !.index = "cftime", !.names = {"cftime"},
               !.coords = {"cftime"}, !.cftime = ax.raw, !.raw = <<>>]

\* xds["time"] = ...; xds["ftime"] = ...: two new data variables on the dimension
add_time_vars(ax, cycle) ==
    LET time == cftime2time(ax.cftime)
    IN [ax EXCEPT !.names = @ \cup {"time", "ftime"}, !.time = time,
                  !.ftime = lead_time(time, cycle)]

\* xds.swap_dims({"cftime": "time"}): the dimension takes the name of the variable
\* "time", which becomes its index; cftime stays a coordinate without an index
swap_dims(ax) == [ax EXCEPT !.dim = "time", !.index = "time", !.coords = @ \cup {"time"}]

\* xds.set_coords(["time", "cftime", "ftime"])
set_time_coords(ax) == [ax EXCEPT !.coords = @ \cup {"time", "cftime", "ftime"}]

\* the time axis after FV3Dataset.open_dataset, lines 28-50
NormalizeAxis(ax, cycle) == set_time_coords(swap_dims(add_time_vars(rename_time(ax), cycle)))


(***************************************************************************)
(* The backing filesystem and the zarr writes                              *)
(***************************************************************************)
\* the store locations of the model: the two trees under each output root
PathOuts == {"out"}
\* a directory outside the output root, as coords_path_out can name it
CoordsPathOuts == {<<"elsewhere">>}

Locations ==
    {<<po, k, "fv3.zarr">> : po \in PathOuts, k \in {"coordinates", "forecast"}} \cup CoordsPathOuts

NoDir == [state |-> "absent", vars |-> {}, coords |-> {}]
PartialDir == [state |-> "partial", vars |-> {}, coords |-> {}]
Written(ds) == [state |-> "written", vars |-> ds.vars, coords |-> ds.coords]

\* os.path.isdir(path)
isdir(files, path) == files[path].state # "absent"

\* how a write to a store can end: it completes, or the I/O layer raises before
\* or after it has touched the store
IOOutcomes == {"ok", "fail_clean", "fail_partial"}

\* Dataset.to_zarr(store) / chunk_plan.execute(): the store after the call
to_zarr(ds, old, io) ==
    CASE io = "ok"           -> Written(ds)
      [] io = "fail_clean"   -> old
      [] io = "fail_partial" -> PartialDir

(***************************************************************************)
(* Store Writer: UFSDataset.store_dataset and its helpers                  *)
(***************************************************************************)
\* variant: the store is opened and written before the check of the data variables
store_coordinates_unguarded(self, cds, files, io) ==
    [err   |-> IF Cardinality(DataVars(cds)) # 0 THEN Err("AttributeError", "data_vars", "")
               ELSE IF io = "ok" THEN NoErr ELSE Err("OSError", "to_zarr", ""),
     files |-> [files EXCEPT ![coords_path(self)] = to_zarr(cds, @, io)],
     wrote |-> io # "fail_clean"]

\* UFSDataset._store_coordinates(cds): [err, files, wrote]
store_coordinates(self, cds, files, io) ==
    IF Cardinality(DataVars(cds)) # 0
    THEN [err |-> Err("AttributeError", "data_vars", ""), files |-> files, wrote |-> FALSE]
    ELSE [err   |-> IF io = "ok" THEN NoErr ELSE Err("OSError", "to_zarr", ""),
          files |-> [files EXCEPT ![coords_path(self)] = to_zarr(cds, @, io)],
          wrote |-> io # "fail_clean"]

\* variant: the gate without the existence check
coord_write_due_unchecked(self, files) == ~IsNone(self.coords)

\* line 196: the gate of the coordinate write
coord_write_due(self, files) == ~isdir(files, coords_path(self)) /\ ~IsNone(self.coords)

\* variant: the selected names are not made coordinates
coord_subset_without_set_coords(self, ds) ==
    LET coords == Filter(self.coords.items, ds.vars)
        cds    == Select(ds, Range(coords))
    IN IF "member" \in cds.vars THEN DropMember(cds) ELSE cds

\* lines 197-200: the coordinate subset handed to _store_coordinates
coord_subset(self, ds) ==
    LET coords == Filter(self.coords.items, ds.vars)
        cds    == set_coords(Select(ds, Range(coords)), Range(coords))
    IN IF "member" \in cds.vars THEN DropMember(cds) ELSE cds

TimeCoords == {"time", "cftime", "ftime"}

\* variant: the allow-list is used as it is configured
select_data_vars_unfiltered(self, ds) == self.data_vars.items

\* lines 207-212: the names kept from the allow-list
select_data_vars(self, ds) == Filter(self.data_vars.items, ds.vars)

RECURSIVE select_warnings(_, _)
\* lines 208-212: one warning for every configured name that is not in the dataset
select_warnings(names, ds) ==
    IF names = <<>> THEN <<>>
    ELSE (IF Head(names) \in ds.vars THEN <<>>
          ELSE <<Warning("store_dataset", Head(names), "", "skipping this variable")>>)
         \o select_warnings(Tail(names), ds)

\* lines 205-213: the dataset handed to _store_data_vars
forecast_subset(self, ds) ==
    LET tds == set_coords(ds, TimeCoords)
    IN IF ~IsNone(self.data_vars) THEN Select(tds, Range(select_data_vars(self, tds))) ELSE tds

\* line 246: the branch of _store_data_vars
uses_rechunker(self) == ~IsNone(self.max_mem)

NoDS == [open |-> FALSE, ds |-> EmptyDS]
Opened(ds) == [open |-> TRUE, ds |-> ds]

\* arg and coords0 record the call: the dataset passed in and the coordinate store
\* as it was when the call was received; seen is the coordinate store as line 196
\* found it
EmptyFrame ==
    [xds |-> EmptyDS, arg |-> EmptyDS, coords0 |-> NoDir, seen |-> NoDir, cds |-> EmptyDS,
     chunks |-> <<>>, planned |-> FALSE, warned |-> <<>>, err |-> NoErr]

\* files records the stores as they were when the constructor was called
NoCtor == [called |-> FALSE, file |-> "", outcome |-> "none", err |-> NoErr, warned |-> <<>>,
           config |-> [k \in ConfigKeys |-> AbsentV], files |-> [l \in Locations |-> NoDir]]

\* variant: the exception of the coordinate write is caught and the run goes on
after_coord_write_swallowed(err) == "VAR_SELECT"

\* an exception is not caught anywhere in store_dataset: it ends the run
after_coord_write(err) == IF err = NoErr THEN "VAR_SELECT" ELSE "FAILED"

NoCall == [fn |-> "none"]


(***************************************************************************)
(* The console script: skeleton.main and requested_vars_xarray             *)
(***************************************************************************)
\* how reading the two files can end once both exist: the variables are read, the YAML
\* has no 'requested_variables', the data file is no dataset xarray can open, or it
\* lacks a requested variable
ReadOutcomes == {"ok", "no_requested_variables", "not_a_dataset", "no_such_variable"}

\* requested_vars_xarray(yml_fp, data_fp): [err, opened]
requested_vars_xarray(yml_fp, data_fp, outcome) ==
    CASE outcome = "ok" -> [err |-> NoErr, opened |-> <<yml_fp, data_fp>>]
      [] outcome = "no_requested_variables" ->
            [err |-> Err("KeyError", "requested_variables", yml_fp), opened |-> <<yml_fp>>]
      [] outcome = "not_a_dataset" ->
            [err |-> Err("ValueError", "open_dataset", data_fp), opened |-> <<yml_fp, data_fp>>]
      [] outcome = "no_such_variable" ->
            [err |-> Err("KeyError", "variable", data_fp), opened |-> <<yml_fp, data_fp>>]

MainReturn(code) == [returned |-> TRUE, ret |-> code, err |-> NoErr, opened |-> <<>>]

\* the body of main(args), lines 85-102; exists: the paths that are files
main_body(args, exists, outcome) ==
    IF Len(args) # 2 THEN MainReturn(1)
    ELSE IF args[1] \notin exists THEN MainReturn(1)
    ELSE IF args[2] \notin exists THEN MainReturn(1)
    ELSE LET out == requested_vars_xarray(args[1], args[2], outcome)
         IN [returned |-> out.err = NoErr, ret |-> 0, err |-> out.err, opened |-> out.opened]

\* a call skeleton.main(*positional): main has one parameter, args; any other number
\* of positional arguments is a TypeError raised before the body runs
skeleton_main(positional, exists, outcome) ==
    IF Len(positional) # 1
    THEN [returned |-> FALSE, ret |-> 0, err |-> Err("TypeError", "main", ""), opened |-> <<>>]
    ELSE main_body(positional[1].items, exists, outcome)

(***************************************************************************)
(* Inputs: configuration blocks, source datasets, cycles                   *)
(***************************************************************************)
\* a value for every key, as a YAML block would give it
Canon(k) ==
    CASE k = "path_out"       -> PyStr("out")
      [] k = "forecast_hours" -> PyList(<<0, 6>>)
      [] k = "file_prefixes"  -> PyStr("bfg_")
      [] k = "chunks_in"      -> PyDict(<<<<"pfull", 5>>>>)
      [] k = "chunks_out"     -> PyDict(<<<<"time", 1>>, <<"zz", 3>>, <<"pfull", 2>>>>)
      [] k = "coords"         -> PyList(<<"ak", "geolat", "member", "zz">>)
      [] k = "data_vars"      -> PyList(<<"tmp", "missing">>)
      [] k = "max_mem"        -> PyStr("100MB")
      [] k = "temp_store"     -> PyStr("tmp")
      [] k = "coords_path_out" -> PyStr("elsewhere")

Block(present) == [k \in ConfigKeys |-> IF k \in present THEN Canon(k) ELSE AbsentV]

FullBlock == Block(LoopKeys)

\* blocks that name a separate place for the coordinates
OverrideBlocks == {Block(ConfigKeys)}

\* blocks that hold every required key and any subset of the optional ones
OptionalSubsetBlocks == {Block(Range(RequiredKeys) \cup S) : S \in SUBSET Range(OptionalKeys)}

\* blocks that lack required keys, with all or none of the optional ones
LackingBlocks ==
    {Block(R \cup O) : R \in (SUBSET Range(RequiredKeys)) \ {Range(RequiredKeys)},
                       O \in {{}, Range(OptionalKeys)}}

\* blocks with other values for the keys the Store Writer reads
VariantBlocks ==
    {[FullBlock EXCEPT !["coords"] = c, !["data_vars"] = d,
                       !["chunks_out"] = co, !["file_prefixes"] = fp] :
        c \in {PyList(<<>>), PyList(<<"zz">>)},
        d \in {PyList(<<"nope", "missing">>), PyList(<<"time", "tmp">>), AbsentV},
        co \in {PyDict(<<>>)},
        fp \in {PyList(<<"sfg_", "bfg_">>)}}

Configs == OptionalSubsetBlocks \cup LackingBlocks \cup VariantBlocks \cup OverrideBlocks

ConfigFiles == {"config-replay.yaml"}

\* what the source files of a cycle can hold, as xr.open_mfdataset returns it
RawDatasets ==
    {MkDS({"time", "pfull", "phalf", "ak", "tmp"}, {"time", "pfull", "phalf", "ak"}),
     MkDS({"time", "member", "geolat", "tmp", "pressfc"}, {"time", "member", "geolat"})}

\* a dataset a caller built without open_dataset: it has no cftime and no ftime
HandMade == {MkDS({"time", "pfull", "tmp"}, {"time", "pfull"})}

Cycles == {[year |-> 1994, month |-> 1, day |-> 1, hour |-> 0],
           [year |-> 2020, month |-> 12, day |-> 31, hour |-> 18]}

\* the day after t, at the same hour
NextDay(t) ==
    IF t.day < DaysInMonth(t.year, t.month) THEN [t EXCEPT !.day = @ + 1]
    ELSE IF t.month < 12 THEN [t EXCEPT !.day = 1, !.month = @ + 1]
    ELSE [t EXCEPT !.day = 1, !.month = 1, !.year = @ + 1]

RECURSIVE AddDays(_, _)
AddDays(t, n) == IF n = 0 THEN t ELSE NextDay(AddDays(t, n - 1))

\* the timestamp h hours after t
AddHours(t, h) == [AddDays(t, (t.hour + h) \div 24) EXCEPT !.hour = (t.hour + h) % 24]

\* the file of a cycle and a lead hour holds one timestamp, the valid time of the
\* forecast; xr.open_mfdataset lines the files up along their time dimension
FileStamps(cycle, hours) == [i \in 1..Len(hours) |-> AddHours(cycle, hours[i])]

\* the stores as an earlier process may have left them
InitialFS ==
    {[l \in Locations |-> NoDir],
     [l \in Locations |-> IF Len(l) = 3 /\ l[2] = "coordinates"
                           THEN Written(MkDS({"ak"}, {"ak"})) ELSE NoDir]}

(***************************************************************************)
(* The pipeline as a state machine                                         *)
(***************************************************************************)
Init ==
    /\ inst = NoInst
    /\ ctor = NoCtor
    /\ fnames = <<>>
    /\ xds = NoDS
    /\ fs \in InitialFS
    /\ pc = [r \in Runs |-> "idle"]
    /\ frame = [r \in Runs |-> EmptyFrame]
    /\ visited = [r \in Runs |-> <<>>]
    /\ coordWrites = 0
    /\ dataWrites = [r \in Runs |-> 0]
    /\ ucall = NoCall

NoRunActive == \A r \in Runs : pc[r] \in {"idle", "returned"}

\* reader = FV3Dataset(path_in=cached_path, config_filename=file)
Construct(cfg, file) ==
    /\ ~ctor.called
    /\ LET res == FV3Init(cfg, file)
       IN /\ inst' = res.inst
          /\ ctor' = [called |-> TRUE, file |-> file, outcome |-> res.outcome, err |-> res.err,
                      warned |-> res.warned, config |-> cfg, files |-> fs]
    /\ fnames' = <<>>
    /\ xds' = NoDS
    /\ UNCHANGED <<fs, pc, frame, visited, coordWrites, dataWrites, ucall>>

\* ds = reader.open_dataset(cycle, ...)
OpenDataset(cycle, raw) ==
    /\ inst.live
    /\ NoRunActive
    /\ fnames' = cached_path(cycle, inst.forecast_hours.items, inst.file_prefixes.items)
    /\ xds' = Opened(FV3Normalize(raw))
    /\ UNCHANGED <<inst, ctor, fs, pc, frame, visited, coordWrites, dataWrites, ucall>>

\* the process ends: the reader and the dataset are gone, the stores stay
Exit ==
    /\ ctor.called
    /\ NoRunActive
    /\ inst' = NoInst
    /\ ctor' = NoCtor
    /\ fnames' = <<>>
    /\ xds' = NoDS
    /\ UNCHANGED <<fs, pc, frame, visited, coordWrites, dataWrites, ucall>>

Goto(r, to) ==
    /\ pc' = [pc EXCEPT ![r] = to]
    /\ visited' = [visited EXCEPT ![r] = Append(@, to)]

\* reader.store_dataset(d): the call is received
StartRun(r, d) ==
    /\ inst.live
    /\ pc[r] = "idle"
    /\ \A q \in Runs : q < r => pc[q] # "idle"
    /\ Goto(r, "RECEIVED")
    /\ frame' = [frame EXCEPT ![r] = [EmptyFrame EXCEPT !.xds = d, !.arg = d,
                                                       !.coords0 = fs[coords_path(inst)]]]
    /\ UNCHANGED <<inst, ctor, fnames, xds, fs, coordWrites, dataWrites, ucall>>

\* one writer at a time: a run starts only when no other run is under way
SeqStartRun(r, d) == NoRunActive /\ StartRun(r, d)

\* line 193: xds = xds.reset_coords()
Receive(r) ==
    /\ pc[r] = "RECEIVED"
    /\ frame' = [frame EXCEPT ![r].xds = reset_coords(@)]
    /\ Goto(r, "COORD_CHECK")
    /\ UNCHANGED <<inst, ctor, fnames, xds, fs, coordWrites, dataWrites, ucall>>

\* line 196: if not os.path.isdir(self.coords_path) and self.coords is not None
CoordCheck(r) ==
    /\ pc[r] = "COORD_CHECK"
    /\ Goto(r, IF coord_write_due(inst, fs) THEN "COORD_WRITE" ELSE "COORD_SKIP")
    /\ frame' = [frame EXCEPT ![r].seen = fs[coords_path(inst)]]
    /\ UNCHANGED <<inst, ctor, fnames, xds, fs, coordWrites, dataWrites, ucall>>

\* lines 197-201: build the coordinate subset and call _store_coordinates
CoordWrite(r, io) ==
    /\ pc[r] = "COORD_WRITE"
    /\ LET cds == coord_subset(inst, frame[r].xds)
           res == store_coordinates(inst, cds, fs, io)
       IN /\ fs' = res.files
          /\ coordWrites' = IF res.wrote THEN coordWrites + 1 ELSE coordWrites
          /\ frame' = [frame EXCEPT ![r].cds = cds, ![r].err = res.err]
          /\ Goto(r, after_coord_write(res.err))
    /\ UNCHANGED <<inst, ctor, fnames, xds, dataWrites, ucall>>

\* line 196 was false: nothing to do for the coordinates
CoordSkip(r) ==
    /\ pc[r] = "COORD_SKIP"
    /\ Goto(r, "VAR_SELECT")
    /\ UNCHANGED <<inst, ctor, fnames, xds, fs, frame, coordWrites, dataWrites, ucall>>

\* lines 205-215 and 244-246: select the variables, pick the write path
VarSelect(r) ==
    /\ pc[r] = "VAR_SELECT"
    /\ IF ~set_coords_ok(frame[r].xds, TimeCoords)
       THEN /\ frame' = [frame EXCEPT ![r].err = Err("ValueError", "set_coords", "")]
            /\ Goto(r, "FAILED")
       ELSE /\ frame' = [frame EXCEPT
                  ![r].xds = forecast_subset(inst, @),
                  ![r].warned = IF IsNone(inst.data_vars) THEN <<>>
                                ELSE select_warnings(inst.data_vars.items, frame[r].xds)]
            /\ Goto(r, IF uses_rechunker(inst) THEN "STAGED_RECHUNK_WRITE" ELSE "DIRECT_WRITE")
    /\ UNCHANGED <<inst, ctor, fnames, xds, fs, coordWrites, dataWrites, ucall>>

\* the forecast store after a write of run r ended the way `io` says; the dict handed
\* to _get_relevant_chunks is self.chunks_out itself, so what the call leaves of its
\* argument is what the reader holds afterwards
DataWrite(r, io, planned) ==
    /\ LET res == get_relevant_chunks(DimsOf(frame[r].xds), inst.chunks_out.items)
       IN /\ frame' = [frame EXCEPT
                ![r].chunks = res.new_chunks,
                ![r].planned = planned,
                ![r].err = IF io = "ok" THEN NoErr ELSE Err("OSError", "to_zarr", "")]
          /\ inst' = [inst EXCEPT !.chunks_out = PyDict(res.chunks)]
    /\ fs' = [fs EXCEPT ![forecast_path(inst)] = to_zarr(frame[r].xds, @, io)]
    /\ dataWrites' = [dataWrites EXCEPT ![r] = IF io = "fail_clean" THEN @ ELSE @ + 1]
    /\ Goto(r, IF io = "ok" THEN "DONE" ELSE "FAILED")
    /\ UNCHANGED <<ctor, fnames, xds, coordWrites, ucall>>

\* lines 247-248: xds = self.chunk(xds); xds.to_zarr(store, **kwargs)
DirectWrite(r, io) == pc[r] = "DIRECT_WRITE" /\ DataWrite(r, io, FALSE)

\* lines 251-260: chunk_plan = rechunk(...); chunk_plan.execute()
StagedWrite(r, io) == pc[r] = "STAGED_RECHUNK_WRITE" /\ DataWrite(r, io, TRUE)

\* store_dataset returns, or its exception reaches the caller: the frame is gone
Return(r) ==
    /\ pc[r] \in {"DONE", "FAILED"}
    /\ pc' = [pc EXCEPT ![r] = "returned"]
    /\ frame' = [frame EXCEPT ![r] = EmptyFrame]
    /\ visited' = [visited EXCEPT ![r] = <<>>]
    /\ dataWrites' = [dataWrites EXCEPT ![r] = 0]
    /\ UNCHANGED <<inst, ctor, fnames, xds, fs, coordWrites, ucall>>

Step(r) ==
    \/ Receive(r)
    \/ CoordCheck(r)
    \/ \E io \in IOOutcomes : CoordWrite(r, io)
    \/ CoordSkip(r)
    \/ VarSelect(r)
    \/ \E io \in IOOutcomes : DirectWrite(r, io)
    \/ \E io \in IOOutcomes : StagedWrite(r, io)
    \/ Return(r)

Next ==
    \/ \E cfg \in Configs, file \in ConfigFiles : Construct(cfg, file)
    \/ \E cycle \in Cycles, raw \in RawDatasets : OpenDataset(cycle, raw)
    \/ \E r \in Runs : \E d \in (IF xds.open THEN {xds.ds} ELSE {}) \cup HandMade : SeqStartRun(r, d)
    \/ \E r \in Runs : Step(r)
    \/ Exit

Spec == Init /\ [][Next]_vars


(***************************************************************************)
(* Writers that are not kept apart: store_dataset calls whose steps         *)
(* interleave, on readers of one configuration                              *)
(***************************************************************************)
\* the configurations of the racing readers: with and without the rechunker
RaceInstances ==
    {FV3Init(cfg, f).inst : cfg \in {FullBlock, Block(LoopKeys \ {"max_mem", "temp_store"})},
                            f \in ConfigFiles}

RaceDatasets == {FV3Normalize(raw) : raw \in RawDatasets}

InitRace ==
    /\ inst \in RaceInstances
    /\ ctor = NoCtor
    /\ fnames = <<>>
    /\ xds = NoDS
    /\ fs \in InitialFS
    /\ pc = [r \in Runs |-> "idle"]
    /\ frame = [r \in Runs |-> EmptyFrame]
    /\ visited = [r \in Runs |-> <<>>]
    /\ coordWrites = 0
    /\ dataWrites = [r \in Runs |-> 0]
    /\ ucall = NoCall

\* nothing in store_dataset waits for another call: a call is received at any time and
\* the steps of the calls under way are taken in any order
NextRace ==
    \/ \E r \in Runs, d \in RaceDatasets : StartRun(r, d)
    \/ \E r \in Runs : Step(r)

SpecRace == InitRace /\ [][NextRace]_vars

(***************************************************************************)
(* Direct calls of the helpers, on any input                               *)
(***************************************************************************)
LeadHours == {0, 6, 120}
Prefixes == {"sfg_", "bfg_"}
DimNames == {"time", "pfull", "grid_yt", "zz"}
ChunkSizes == {5, -1}

DistinctKeys(d) == \A i, j \in 1..Len(d) : d[i][1] = d[j][1] => i = j

\* the dicts of at most MaxChunks entries
ChunkMaps == {d \in SeqsUpTo(DimNames \X ChunkSizes, MaxChunks) : DistinctKeys(d)}

\* datasets a caller can hand to _store_coordinates
CoordinateArgs ==
    {MkDS({"ak"}, {"ak"}), MkDS({"ak", "tmp"}, {"ak"}), MkDS({"tmp", "pfull"}, {"pfull"}),
     MkDS({"tmp"}, {}), EmptyDS}

\* the file names of tests/test_skeleton.py
GoodYaml == "test_files/s3_source_amsua_first_pass.yaml"
BadYaml == "test_files/bad_yaml_filename.yaml"
GoodData == "S:/NOAA Ecosystem Project/UFS2ARCO/bfg_1994010100_fhr03_control"
BadData == "S:/NOAA Ecosystem Project/UFS2ARCO/BadDataFileName"

\* which of the named paths are files on the machine: the two bad names never are
ExistingFiles == SUBSET {GoodYaml, GoodData}

\* the ways main is called: with the list of the two names (as its docstring and
\* __main__ do), with a list of another length, and with the two names as two
\* positional arguments (as tests/test_skeleton.py does)
MainCalls ==
    {<<PyList(<<y, d>>)>> : y \in {GoodYaml, BadYaml}, d \in {GoodData, BadData}}
    \cup {<<PyList(<<GoodYaml>>)>>, <<PyList(<<>>)>>}
    \cup {<<PyStr(y), PyStr(d)>> : y \in {GoodYaml, BadYaml}, d \in {GoodData, BadData}}

Ascending(s) == \A i, j \in 1..Len(s) : i < j => s[i] < s[j]

\* the forecast_hours lists of the readers open_dataset is called on
HourLists == {h \in SeqsUpTo(LeadHours, MaxLen) : Ascending(h)}

\* cycles before the end of a year and before a leap day
OpenCycles == Cycles \cup {[year |-> 2020, month |-> 2, day |-> 28, hour |-> 18]}

\* the readers the helpers are called on
UnitInstances == {FV3Init(cfg, f).inst : cfg \in {FullBlock}, f \in ConfigFiles}

InitUnit ==
    /\ inst \in UnitInstances
    /\ ctor = NoCtor
    /\ fnames = <<>>
    /\ xds = NoDS
    /\ fs \in InitialFS
    /\ pc = [r \in Runs |-> "idle"]
    /\ frame = [r \in Runs |-> EmptyFrame]
    /\ visited = [r \in Runs |-> <<>>]
    /\ coordWrites = 0
    /\ dataWrites = [r \in Runs |-> 0]
    /\ ucall = NoCall

\* replay_path(date, forecast_hours, file_prefixes)
CallReplayPath(date, hours, prefixes) ==
    /\ ucall = NoCall
    /\ ucall' = [fn |-> "replay_path", date |-> date, hours |-> hours, prefixes |-> prefixes,
                 ret |-> replay_path(date, hours, prefixes)]
    /\ UNCHANGED <<inst, ctor, fnames, xds, fs, pc, frame, visited, coordWrites, dataWrites>>

\* UFSDataset._get_relevant_chunks(dims, chunks)
CallGetRelevantChunks(dims, chunks) ==
    /\ ucall = NoCall
    /\ LET res == get_relevant_chunks(dims, chunks)
       IN ucall' = [fn |-> "_get_relevant_chunks", dims |-> dims, chunks |-> chunks,
                    ret |-> res.new_chunks, after |-> res.chunks]
    /\ UNCHANGED <<inst, ctor, fnames, xds, fs, pc, frame, visited, coordWrites, dataWrites>>

\* reader._store_coordinates(cds)
CallStoreCoordinates(cds, io) ==
    /\ inst.live
    /\ ucall.fn \in {"none", "_store_coordinates"}
    /\ LET res == store_coordinates(inst, cds, fs, io)
       IN /\ fs' = res.files
          /\ ucall' = [fn |-> "_store_coordinates", cds |-> cds, before |-> fs,
                       err |-> res.err, wrote |-> res.wrote]
    /\ UNCHANGED <<inst, ctor, fnames, xds, pc, frame, visited, coordWrites, dataWrites>>

\* FV3Dataset.open_dataset(cycle) on a reader configured with the lead hours `hours`
CallOpenDataset(cycle, hours, raw) ==
    /\ inst.live
    /\ ucall = NoCall
    /\ LET self  == [inst EXCEPT !.forecast_hours = PyList(hours)]
           files == cached_path(cycle, self.forecast_hours.items, self.file_prefixes.items)
       IN ucall' = IF files = <<>>
                   THEN [fn |-> "open_dataset", cycle |-> cycle, hours |-> hours, fnames |-> files,
                         err |-> Err("OSError", "no files to open", ""),
                         ds |-> EmptyDS, axis |-> RawAxis(<<>>)]
                   ELSE [fn |-> "open_dataset", cycle |-> cycle, hours |-> hours, fnames |-> files,
                         err |-> NoErr,
                         ds |-> FV3Normalize(raw),
                         axis |-> NormalizeAxis(RawAxis(FileStamps(cycle, hours)), cycle)]
    /\ UNCHANGED <<inst, ctor, fnames, xds, fs, pc, frame, visited, coordWrites, dataWrites>>

\* skeleton.main(*positional)
CallMain(positional, exists, outcome) ==
    /\ ucall = NoCall
    /\ LET res == skeleton_main(positional, exists, outcome)
       IN ucall' = [fn |-> "main", positional |-> positional, exists |-> exists,
                    returned |-> res.returned, ret |-> res.ret, err |-> res.err,
                    opened |-> res.opened]
    /\ UNCHANGED <<inst, ctor, fnames, xds, fs, pc, frame, visited, coordWrites, dataWrites>>

NextUnit ==
    \/ \E date \in Cycles, hours \in SeqsUpTo(LeadHours, MaxLen),
          prefixes \in SeqsUpTo(Prefixes, MaxLen) : CallReplayPath(date, hours, prefixes)
    \/ \E dims \in SUBSET DimNames, chunks \in ChunkMaps : CallGetRelevantChunks(dims, chunks)
    \/ \E cds \in CoordinateArgs, io \in IOOutcomes : CallStoreCoordinates(cds, io)
    \/ \E cycle \in OpenCycles, hours \in HourLists, raw \in RawDatasets :
          CallOpenDataset(cycle, hours, raw)
    \/ \E positional \in MainCalls, exists \in ExistingFiles, outcome \in ReadOutcomes :
          CallMain(positional, exists, outcome)

SpecUnit == InitUnit /\ [][NextUnit]_vars


(***************************************************************************)
(* Properties                                                              *)
(***************************************************************************)
Active(r) == pc[r] \notin {"idle", "returned"}

CoordLoc == <<"out", "coordinates", "fv3.zarr">>
ForecastLoc == <<"out", "forecast", "fv3.zarr">>

\* C1: over non-overlapping store_dataset runs on one coordinate store location the
\* store is physically written at most once, and a run received while the location
\* exists never enters the coordinate write and leaves the store as it found it,
\* whatever its configuration and dataset
C1_CoordinateStoreWrittenOnce ==
    /\ coordWrites <= 1
    /\ \A r \in Runs :
         (Active(r) /\ frame[r].coords0.state # "absent") =>
             /\ "COORD_WRITE" \notin Range(visited[r])
             /\ fs[CoordLoc] = frame[r].coords0

\* a second run, configured with coordinates, completes on a store the first run wrote,
\* and what it would have written differs from what the store holds
C1_Witness ==
    \E r \in Runs :
        /\ pc[r] = "DONE"
        /\ coordWrites = 1
        /\ frame[r].coords0.state = "written"
        /\ ~IsNone(inst.coords)
        /\ Written(coord_subset(inst, reset_coords(frame[r].arg))) # fs[CoordLoc]

\* C2 (as the specification states it): a run writes to the coordinate store only if
\* the location was absent when the run was received and the configuration lists at
\* least one coordinate name; with coords absent or an empty list no coordinate store
\* is created
C2_WriteOnlyWithListedCoords ==
    \A r \in Runs :
        (Active(r) /\ fs[CoordLoc] # frame[r].coords0) =>
            /\ frame[r].coords0.state = "absent"
            /\ inst.coords.kind = "list"
            /\ Len(inst.coords.items) >= 1

\* C3: a run that completes has made exactly one write to the forecast store, which
\* then holds the dataset the run selected
C3_OneForecastWritePerRun ==
    \A r \in Runs :
        pc[r] = "DONE" =>
            /\ dataWrites[r] = 1
            /\ fs[ForecastLoc] = Written(frame[r].xds)

\* a completed run that also wrote the coordinate store
C3_Witness ==
    \E r \in Runs :
        /\ pc[r] = "DONE"
        /\ "COORD_WRITE" \in Range(visited[r])
        /\ dataWrites[r] = 1
        /\ fs[CoordLoc].state = "written"


\* C4: _store_coordinates, given a subset that still holds a data variable, raises the
\* internal-consistency error and writes nothing: the coordinate store location is
\* neither created nor modified
C4_InvariantCheckAbortsWrite ==
    (ucall.fn = "_store_coordinates" /\ DataVars(ucall.cds) # {}) =>
        /\ ucall.err.type = "AttributeError"
        /\ ~ucall.wrote
        /\ fs = ucall.before

\* the call was made with a data variable in the subset while no store existed
C4_Witness ==
    /\ ucall.fn = "_store_coordinates"
    /\ "tmp" \in DataVars(ucall.cds)
    /\ ucall.err.type = "AttributeError"
    /\ ~isdir(fs, CoordLoc)

\* the states of the Store Writer, in the two orders a completed run can take
WriterPaths ==
    {<<"RECEIVED", "COORD_CHECK", c, "VAR_SELECT", w, "DONE">> :
        c \in {"COORD_WRITE", "COORD_SKIP"}, w \in {"DIRECT_WRITE", "STAGED_RECHUNK_WRITE"}}

IsPrefix(s, t) == Len(s) <= Len(t) /\ SubSeq(t, 1, Len(s)) = s

\* s without a final "FAILED"
BeforeFailure(s) == IF s # <<>> /\ s[Len(s)] = "FAILED" THEN SubSeq(s, 1, Len(s) - 1) ELSE s

\* C5: a run goes RECEIVED, COORD_CHECK, one of COORD_WRITE / COORD_SKIP, VAR_SELECT,
\* one of DIRECT_WRITE / STAGED_RECHUNK_WRITE, DONE; no state twice; an error ends the
\* run at once (FAILED is entered exactly when an error was raised, nothing follows it,
\* and no forecast write is made after a failed coordinate write)
C5_WriterStateMachine ==
    \A r \in Runs :
        Active(r) =>
            /\ visited[r] # <<>>
            /\ pc[r] = visited[r][Len(visited[r])]
            /\ \E p \in WriterPaths : IsPrefix(BeforeFailure(visited[r]), p)
            /\ BeforeFailure(visited[r]) # <<>>
            /\ (frame[r].err # NoErr) <=> (pc[r] = "FAILED")
            /\ (dataWrites[r] > 0) =>
                   \E i \in 1..Len(visited[r]) :
                       visited[r][i] \in {"DIRECT_WRITE", "STAGED_RECHUNK_WRITE"}
            /\ dataWrites[r] <= 1

\* a run whose coordinate write failed: it ended there, with no forecast write
C5_Witness ==
    \E r \in Runs :
        /\ visited[r] = <<"RECEIVED", "COORD_CHECK", "COORD_WRITE", "FAILED">>
        /\ frame[r].err.type = "OSError"
        /\ dataWrites[r] = 0
        /\ fs[ForecastLoc] = NoDir


Lacking(cfg) == {k \in Range(RequiredKeys) : cfg[k].kind = "absent"}
Omitted(cfg) == {k \in Range(OptionalKeys) : cfg[k].kind = "absent"}

\* C6: constructing from a block that lacks a required key fails at once with an error
\* that names a key the block lacks (the one key, when only one is lacking) and the
\* configuration file; there is no instance, and nothing is read or written
C6_MissingRequiredKeyIsFatal ==
    (ctor.called /\ Lacking(ctor.config) # {}) =>
        /\ ctor.outcome = "raised"
        /\ ctor.err.type = "KeyError"
        /\ ctor.err.key \in Lacking(ctor.config)
        /\ ctor.err.file = ctor.file
        /\ ~inst.live
        /\ ~xds.open /\ fnames = <<>>
        /\ NoRunActive
        /\ fs = ctor.files

\* the block lacks forecast_hours only, and the error names it
C6_Witness ==
    /\ ctor.called
    /\ Lacking(ctor.config) = {"forecast_hours"}
    /\ ctor.err = Err("KeyError", "forecast_hours", "config-replay.yaml")
    /\ ~inst.live

\* C7 (as the specification states it): constructing an FV3Dataset from a block with every required key never
\* fails, whichever optional keys are omitted; each omitted key gets its default
\* (the built-in chunk maps for chunks_in / chunks_out) and a warning
C7_OptionalKeysNeverFatal ==
    (ctor.called /\ Lacking(ctor.config) = {}) =>
        /\ ctor.outcome = "ok"
        /\ inst.live
        /\ \A k \in Omitted(ctor.config) :
              /\ \E i \in 1..Len(ctor.warned) : ctor.warned[i].key = k
              /\ inst[k] = CASE k = "chunks_in"  -> PyDict(FV3ChunksIn)
                             [] k = "chunks_out" -> PyDict(FV3ChunksOut)
                             [] OTHER            -> NoneV

\* the coordinates of the forecast dataset before the allow-list is applied
ForecastCoords(arg) == IndexCoords(arg) \cup TimeCoords

\* the configured names that are / are not variables of the dataset, in configured order
Present(names, arg) == SelectSeq(names, LAMBDA n : n \in arg.vars)
NotPresent(names, arg) == SelectSeq(names, LAMBDA n : n \notin arg.vars)

\* C8: with an allow-list, a completed run has written every configured name that is in
\* the dataset and no other data variable (a configured name that is a coordinate is
\* written as a coordinate), with one warning per configured name that is absent;
\* without an allow-list every variable of the dataset is written and nothing is warned.
\* The allow-list never makes the selection fail: the only error of VAR_SELECT is that of
\* a dataset without the time coordinates
C8_AllowListSelection ==
    \A r \in Runs :
        /\ pc[r] = "DONE" =>
              IF ~IsNone(inst.data_vars)
              THEN /\ Range(Present(inst.data_vars.items, frame[r].arg)) \subseteq fs[ForecastLoc].vars
                   /\ fs[ForecastLoc].vars \ fs[ForecastLoc].coords =
                          Range(Present(inst.data_vars.items, frame[r].arg)) \ ForecastCoords(frame[r].arg)
                   /\ [i \in 1..Len(frame[r].warned) |-> frame[r].warned[i].key] =
                          NotPresent(inst.data_vars.items, frame[r].arg)
              ELSE /\ fs[ForecastLoc].vars = frame[r].arg.vars
                   /\ fs[ForecastLoc].vars \ fs[ForecastLoc].coords =
                          frame[r].arg.vars \ ForecastCoords(frame[r].arg)
                   /\ frame[r].warned = <<>>
        /\ (pc[r] = "FAILED" /\ visited[r][Len(visited[r]) - 1] = "VAR_SELECT") =>
              ~(TimeCoords \subseteq frame[r].arg.vars)

\* a completed run whose allow-list names one variable of the dataset and one that is not
C8_Witness ==
    \E r \in Runs :
        /\ pc[r] = "DONE"
        /\ ~IsNone(inst.data_vars)
        /\ Present(inst.data_vars.items, frame[r].arg) = <<"tmp">>
        /\ NotPresent(inst.data_vars.items, frame[r].arg) = <<"missing">>
        /\ fs[ForecastLoc].vars \ fs[ForecastLoc].coords = {"tmp"}
        /\ Len(frame[r].warned) = 1

KeySet(d) == {d[i][1] : i \in 1..Len(d)}

\* the position of the entry of key k in dict d
PosOf(d, k) == CHOOSE i \in 1..Len(d) : d[i][1] = k

\* C9: _get_relevant_chunks returns the entries of the requested mapping whose key is a
\* dimension of the dataset: the key set is the intersection, each kept key has its
\* chunk size, the kept keys are in their requested order, and the requested mapping
\* is what it was
C9_RelevantChunks ==
    ucall.fn = "_get_relevant_chunks" =>
        /\ KeySet(ucall.ret) = KeySet(ucall.chunks) \cap ucall.dims
        /\ Len(ucall.ret) = Cardinality(KeySet(ucall.ret))
        /\ \A i \in 1..Len(ucall.ret) : \E j \in 1..Len(ucall.chunks) : ucall.chunks[j] = ucall.ret[i]
        /\ \A i, j \in 1..Len(ucall.ret) :
              i < j => PosOf(ucall.chunks, ucall.ret[i][1]) < PosOf(ucall.chunks, ucall.ret[j][1])
        /\ ucall.after = ucall.chunks

\* a mapping of two keys of which the dataset has only the second
C9_Witness ==
    /\ ucall.fn = "_get_relevant_chunks"
    /\ Len(ucall.chunks) = 2
    /\ ucall.chunks[1][1] \notin ucall.dims
    /\ ucall.ret = <<ucall.chunks[2]>>

\* C10: replay_path returns |prefixes| x |lead_hours| paths, prefix-major and lead-minor:
\* the path at index (i-1)*|lead_hours| + j (counting from 1) is the one of prefix i and
\* lead hour j, under the directory of the cycle
C10_PathOrder ==
    ucall.fn = "replay_path" =>
        /\ Len(ucall.ret) = Len(ucall.prefixes) * Len(ucall.hours)
        /\ \A i \in 1..Len(ucall.prefixes), j \in 1..Len(ucall.hours) :
              ucall.ret[(i - 1) * Len(ucall.hours) + j] =
                  Upper \o "/" \o ThisDir(ucall.date) \o "/"
                        \o FileName(ucall.prefixes[i], ucall.date, ucall.hours[j])

\* two prefixes and two lead hours: the second path is prefix 1 with lead hour 2
C10_Witness ==
    /\ ucall.fn = "replay_path"
    /\ ucall.date = [year |-> 1994, month |-> 1, day |-> 1, hour |-> 0]
    /\ ucall.prefixes = <<"sfg_", "bfg_">>
    /\ ucall.hours = <<0, 6>>
    /\ Len(ucall.ret) = 4
    /\ ucall.ret[2] = "s3://noaa-ufs-gefsv13replay-pds/1deg/1994/01/1994010100/sfg_1994010100_fhr06_control"
    /\ ucall.ret[3] = "s3://noaa-ufs-gefsv13replay-pds/1deg/1994/01/1994010100/bfg_1994010100_fhr00_control"

TimeNames == {"time", "cftime", "ftime"}

\* C11: after FV3Dataset.open_dataset the dataset has exactly the three time coordinates
\* time, cftime and ftime, its time axis is named "time" and indexed by the variable
\* time instead of the raw timestamps (which are kept as cftime), and at every index
\* ftime = time - cycle: the lead hour of the file the timestamp came from
C11_TimeNormalization ==
    (ucall.fn = "open_dataset" /\ ucall.err = NoErr) =>
        /\ ucall.axis.names = TimeNames
        /\ ucall.axis.coords = TimeNames
        /\ TimeNames \subseteq ucall.ds.coords
        /\ ucall.axis.dim = "time" /\ ucall.axis.index = "time"
        /\ ucall.axis.raw = <<>>
        /\ Len(ucall.axis.time) = Len(ucall.hours)
        /\ Len(ucall.axis.ftime) = Len(ucall.hours)
        /\ Len(ucall.axis.cftime) = Len(ucall.hours)
        /\ \A i \in 1..Len(ucall.hours) :
              /\ ucall.axis.ftime[i] = ucall.hours[i]
              /\ ucall.axis.ftime[i] = ucall.axis.time[i] - datetime64(ucall.cycle)
              /\ ucall.axis.cftime[i] = AddHours(ucall.cycle, ucall.axis.ftime[i])

\* lead hours [0, 6] of the cycle 2020-12-31T18: the second timestamp is in the next year
C11_Witness ==
    /\ ucall.fn = "open_dataset"
    /\ ucall.cycle = [year |-> 2020, month |-> 12, day |-> 31, hour |-> 18]
    /\ ucall.hours = <<0, 6>>
    /\ ucall.axis.ftime = <<0, 6>>
    /\ ucall.axis.cftime[2] = [year |-> 2021, month |-> 1, day |-> 1, hour |-> 0]
    /\ ucall.axis.time[2] = 447072
    /\ ucall.axis.coords = TimeNames

OverrideLoc == <<"elsewhere">>

\* C12 (as the specification states it): a reader whose block holds coords_path_out
\* checks and writes the coordinate store at that path, so its runs leave
\* <path_out>/coordinates/<component>.zarr as it was when the reader was built; a reader
\* whose block does not hold it uses the two sibling locations under path_out
C12_CoordinatePathOverride ==
    inst.live =>
        IF InConfig(ctor.config, "coords_path_out")
        THEN /\ coords_path(inst) = <<ctor.config["coords_path_out"].items[1]>>
             /\ fs[CoordLoc] = ctor.files[CoordLoc]
        ELSE /\ coords_path(inst) = <<inst.path_out.items[1], "coordinates", "fv3.zarr">>
             /\ forecast_path(inst) = <<inst.path_out.items[1], "forecast", "fv3.zarr">>
             /\ coords_path(inst) # forecast_path(inst)
             /\ fs[OverrideLoc] = NoDir

\* the file names a call of main was given, in the order given
NamesGiven(positional) ==
    IF Len(positional) = 1 THEN positional[1].items
    ELSE [i \in 1..Len(positional) |-> positional[i].items[1]]

\* C13 (as the specification states it): main called with a YAML file name or a data
\* file name that is no file returns 1, raises nothing and opens neither file; it
\* returns 0 only when both files exist and the requested variables were read
C13_MainReturnsOneOnMissingFile ==
    ucall.fn = "main" =>
        LET names == NamesGiven(ucall.positional)
        IN /\ (Len(names) = 2 /\ (names[1] \notin ucall.exists \/ names[2] \notin ucall.exists)) =>
                  /\ ucall.returned /\ ucall.ret = 1
                  /\ ucall.err = NoErr
                  /\ ucall.opened = <<>>
           /\ (ucall.returned /\ ucall.ret = 0) =>
                  /\ Len(names) = 2
                  /\ Range(names) \subseteq ucall.exists
                  /\ ucall.opened = names

\* C14: the configuration fields of a reader are those its constructor set, whatever
\* open_dataset, chunk and store_dataset calls were made on it since
C14_ConfigurationUnchanged ==
    inst.live =>
        \A k \in LoopKeys \cup {"zarr_name", "name"} :
            inst[k] = FV3Init(ctor.config, ctor.file).inst[k]

\* a second run has written the forecast store with fewer chunk entries than the reader
\* is configured with
C14_Witness ==
    \E r, q \in Runs :
        /\ pc[q] = "returned" /\ pc[r] = "DONE"
        /\ xds.open
        /\ Len(frame[r].chunks) < Len(inst.chunks_out.items)
        /\ inst.chunks_out = ctor.config["chunks_out"]

\* both a memory ceiling and a temporary store are configured
StagedConfigured(cfg) == InConfig(cfg, "max_mem") /\ InConfig(cfg, "temp_store")

\* C15: a run writes the forecast store through the rechunk plan exactly when the block
\* of its reader holds both max_mem and temp_store, and through chunk-and-write
\* otherwise; a block with max_mem and no temp_store gives no reader at all
C15_StagedIffMemoryAndTempStore ==
    /\ \A r \in Runs :
          Active(r) =>
              /\ "STAGED_RECHUNK_WRITE" \in Range(visited[r]) =>
                     /\ StagedConfigured(ctor.config)
                     /\ ~IsNone(inst.max_mem) /\ ~IsNone(inst.temp_store)
              /\ "DIRECT_WRITE" \in Range(visited[r]) => ~StagedConfigured(ctor.config)
              /\ pc[r] = "DONE" => (frame[r].planned <=> StagedConfigured(ctor.config))
    /\ (ctor.called /\ InConfig(ctor.config, "max_mem") /\ ~InConfig(ctor.config, "temp_store")) =>
          /\ ctor.outcome = "raised"
          /\ ~inst.live

\* a run that completed through the rechunk plan, and the stores it left
C15_Witness ==
    \E r \in Runs :
        /\ pc[r] = "DONE"
        /\ frame[r].planned
        /\ "STAGED_RECHUNK_WRITE" \in Range(visited[r])
        /\ inst.max_mem = PyStr("100MB") /\ inst.temp_store = PyStr("tmp")
        /\ fs[ForecastLoc].state = "written"

\* run r went through the coordinate write and on to the selection of the variables
CoordinatesWritten(r) ==
    /\ Len(visited[r]) >= 4
    /\ visited[r][3] = "COORD_WRITE"
    /\ visited[r][4] = "VAR_SELECT"

\* the coordinate write of run r is over, however it ended
CoordinateWriteOver(r) ==
    /\ Len(visited[r]) >= 4
    /\ visited[r][3] = "COORD_WRITE"

\* what C16 says of the subset and of the invariant check
NoDataVariableInSubset(r) ==
    CoordinateWriteOver(r) =>
        /\ DataVars(frame[r].cds) = {}
        /\ frame[r].err.type # "AttributeError"

\* C16 (as the specification states it): the variables a run writes to the coordinate
\* store are exactly the configured coordinate names that are in the dataset; names
\* that are not are skipped without an error, the subset holds no data variable and
\* the invariant check of _store_coordinates does not fail
C16_ExactlyConfiguredCoordinates ==
    \A r \in Runs :
        /\ CoordinatesWritten(r) =>
              /\ fs[CoordLoc].state = "written"
              /\ fs[CoordLoc].vars = Range(Present(inst.coords.items, frame[r].arg))
        /\ NoDataVariableInSubset(r)

\* the dimension coordinates of the dimensions the variables `names` are defined on
DimensionCoordsOf(arg, names) ==
    {d \in UNION {VarDims(v) : v \in names} : d \in arg.vars /\ VarDims(d) = {d}}

\* C16 (amended): the variables a run writes to the coordinate store are the configured
\* coordinate names that are in the dataset, together with the dimension coordinates of
\* their dimensions and without `member`; all of them are written as coordinates;
\* names that are not in the dataset are skipped without an error, the subset holds no
\* data variable and the invariant check of _store_coordinates does not fail
C16_ConfiguredCoordinatesAndTheirDimensions ==
    \A r \in Runs :
        /\ CoordinatesWritten(r) =>
              LET present == Range(Present(inst.coords.items, frame[r].arg))
              IN /\ fs[CoordLoc].state = "written"
                 /\ fs[CoordLoc].vars =
                        (present \cup DimensionCoordsOf(frame[r].arg, present)) \ {"member"}
                 /\ fs[CoordLoc].coords = fs[CoordLoc].vars
        /\ NoDataVariableInSubset(r)

\* a run configured with ak, geolat, member and zz wrote ak and, unasked, phalf
C16_Witness ==
    \E r \in Runs :
        /\ CoordinatesWritten(r)
        /\ inst.coords = PyList(<<"ak", "geolat", "member", "zz">>)
        /\ Present(inst.coords.items, frame[r].arg) = <<"ak">>
        /\ fs[CoordLoc] = Written(MkDS({"ak", "phalf"}, {"ak", "phalf"}))

\* C17: the existence check (line 196) and the coordinate write (lines 232-233) are two
\* steps with nothing in between that keeps other writers out: a run writes the
\* coordinate store whenever its own check found the location absent, whatever the
\* location holds by the time it writes.  So with interleaved runs every coordinate
\* write is by a run whose check saw no store, and nothing else bounds their number
C17_CheckThenWrite ==
    \A r \in Runs :
        /\ "COORD_WRITE" \in Range(visited[r]) =>
              /\ frame[r].seen.state = "absent"
              /\ ~IsNone(inst.coords)
        /\ "COORD_SKIP" \in Range(visited[r]) =>
              (frame[r].seen.state # "absent" \/ IsNone(inst.coords))

\* two runs on a location that was absent when both were received and when both
\* checked: both went through the coordinate write and the store was written twice
C17_Witness ==
    \E r, q \in Runs :
        /\ r # q
        /\ frame[r].coords0 = NoDir /\ frame[q].coords0 = NoDir
        /\ frame[r].seen = NoDir /\ frame[q].seen = NoDir
        /\ CoordinatesWritten(r) /\ CoordinatesWritten(q)
        /\ coordWrites = 2
        /\ fs[CoordLoc].state = "written"

====
